---- MODULE Spec2Model ----
(***************************************************************************)
(* Model of the sales-offer workbook scripts:                              *)
(*   docs/archive/scripts/fix_excel_percentages.py  (fix_percentages)      *)
(*   docs/archive/scripts/diagnose_mismatch.py      (diagnose)             *)
(*   OLD/analyze_excel_detailed.py                  (analyze_excel)        *)
(*                                                                         *)
(* Cell values are records [kind, num, txt]: kind is "none" (empty cell),  *)
(* "num" (a number, held in thousandths: 0.1 is 100, 10 is 10000) or       *)
(* "text" (a sequence of one-character strings).  Floating-point rounding  *)
(* is not modelled: arithmetic is exact on thousandths.                    *)
(***************************************************************************)
EXTENDS Integers, Sequences, FiniteSets, TLC

VARIABLES
    \* ---- fix_percentages ----
    file,       \* the workbook on disk: 1-based <<row, column>> -> value
    pc,         \* position of the current run of fix_percentages
    ws,         \* the loaded worksheet (wb.active), in memory
    row_idx,    \* loop variable of "for row_idx in range(3, 7)"
    changes,    \* the list "changes"
    out,        \* console output of the current run
    ret,        \* value returned by the current run: "none", "True", "False"
    wbHandle,   \* the workbook handle of the run: "none", "open", "closed"
    before,     \* the worksheet as it was loaded by the current run
    examined,   \* 1-based cells passed to ws.cell() in the current run
    saveCalls,  \* calls of wb.save() in the current run
    raised,     \* where the current run raised: "none", "load", "cell", "save"
    hist,       \* return values of the completed runs, oldest first
    \* ---- diagnose / analyze_excel ----
    book,       \* Book1.xlsx as read by iter_rows: a sequence of rows
    script,     \* the reading script being run: "none", "diagnose", "analyze"
    dpc,        \* its position
    data,       \* the list "data"
    mapIdx,     \* index (1-based) of the next entry of "mappings"
    dout,       \* console output of the reading script
    derr,       \* TRUE when the reading script raised
    dHandle     \* its workbook handle: "none", "open", "closed"

fixVars == <<file, pc, ws, row_idx, changes, out, ret, wbHandle, before,
             examined, saveCalls, raised, hist>>
readVars == <<book, script, dpc, data, mapIdx, dout, derr, dHandle>>
vars == <<file, pc, ws, row_idx, changes, out, ret, wbHandle, before,
          examined, saveCalls, raised, hist,
          book, script, dpc, data, mapIdx, dout, derr, dHandle>>

-----------------------------------------------------------------------------
(* Bounds *)

MaxRuns == 2

MaxRows == 10

MaxCols == 7

-----------------------------------------------------------------------------
(* Cell values *)

\* Thousandths per unit.
Scale == 10 * 10 * 10

None == [kind |-> "none", num |-> 0, txt |-> <<>>]

Num(n) == [kind |-> "num", num |-> n, txt |-> <<>>]

Text(s) == [kind |-> "text", num |-> 0, txt |-> s]

DigitVal(ch) ==
    CASE ch = "0" -> 0 [] ch = "1" -> 1 [] ch = "2" -> 2 [] ch = "3" -> 3
      [] ch = "4" -> 4 [] ch = "5" -> 5 [] ch = "6" -> 6 [] ch = "7" -> 7
      [] ch = "8" -> 8 [] ch = "9" -> 9 [] OTHER -> -1

AllDigits(s) == \A i \in 1..Len(s) : DigitVal(s[i]) >= 0

RECURSIVE DigitsValue(_)
DigitsValue(s) ==
    IF s = <<>> THEN 0
    ELSE DigitsValue(SubSeq(s, 1, Len(s) - 1)) * 10 + DigitVal(s[Len(s)])

\* Value in thousandths of the digits after the decimal point.
FracValue(s) ==
    (IF Len(s) >= 1 THEN DigitVal(s[1]) * 100 ELSE 0)
  + (IF Len(s) >= 2 THEN DigitVal(s[2]) * 10 ELSE 0)
  + (IF Len(s) >= 3 THEN DigitVal(s[3]) ELSE 0)

RECURSIVE Strip(_)
Strip(s) ==
    IF s = <<>> THEN s
    ELSE IF s[1] = " " THEN Strip(Tail(s))
    ELSE IF s[Len(s)] = " " THEN Strip(SubSeq(s, 1, Len(s) - 1))
    ELSE s

\* float(str): surrounding blanks stripped, an optional sign, digits with at
\* most one decimal point and at least one digit.  (Exponents, "inf", "nan"
\* and digit-group underscores are outside the texts of this model.)
ParseFloat(s) ==
    LET t    == Strip(s)
        neg  == t # <<>> /\ t[1] = "-"
        sgn  == t # <<>> /\ t[1] \in {"-", "+"}
        body == IF sgn THEN Tail(t) ELSE t
        dots == {i \in 1..Len(body) : body[i] = "."}
        p    == IF dots = {} THEN Len(body) + 1 ELSE CHOOSE i \in dots : TRUE
        ip   == SubSeq(body, 1, p - 1)
        fp   == SubSeq(body, p + 1, Len(body))
        ok   == /\ Cardinality(dots) <= 1
                /\ AllDigits(ip) /\ AllDigits(fp)
                /\ Len(ip) + Len(fp) > 0
        mag  == DigitsValue(ip) * Scale + FracValue(fp)
    IN  IF ok THEN [exc |-> "none", num |-> IF neg THEN 0 - mag ELSE mag]
        ELSE [exc |-> "ValueError", num |-> 0]

\* float(current_value) for a cell value that is not None.
FloatOf(v) ==
    IF v.kind = "num" THEN [exc |-> "none", num |-> v.num]
    ELSE IF v.kind = "text" THEN ParseFloat(v.txt)
    ELSE [exc |-> "TypeError", num |-> 0]

-----------------------------------------------------------------------------
(* fix_percentages *)

\* range(3, 7)
FirstRowIdx == 3

EndRowIdx == 7

\* ws.cell(row=row_idx + 1, column=10)
PctColumn == 10

PctFactor == 100

RowOfIdx(r) == r + 1

CellOfIdx(r) == <<RowOfIdx(r), PctColumn>>

\* 0 < num_value < 1
IsFraction(n) == 0 < n /\ n < Scale

\* Mutant: the fraction scaled by 10 instead of 100.
NewValueTimes10(n) == n * 10

\* num_value * 100
NewValue(n) == n * PctFactor

\* Mutant: the change recorded under the 0-based row index.
ChangeRecordRowIdx(r, old, new) == <<r, old, new>>

\* changes.append((row_idx + 1, current_value, new_value))
ChangeRecord(r, old, new) == <<r + 1, old, new>>

\* Mutant: the inner handler catches TypeError only.
CaughtTypeErrorOnly(exc) == exc \in {"TypeError"}

\* except (ValueError, TypeError)
Caught(exc) == exc \in {"ValueError", "TypeError"}

\* Mutant: the workbook is saved whether or not anything changed.
ShouldSaveAlways(ch) == TRUE

\* "if changes:"
ShouldSave(ch) == ch # <<>>

\* Mutant: the outer handler reports success.
FailureResultTrue == "True"

\* the value returned by "except Exception as e"
FailureResult == "False"

\* Rows and columns of the sheet kept by the model (1-based): the payment
\* plan rows 4..7 with one row above and below, columns J and K.
SheetRows == 3..8

SheetCols == {10, 11}

SheetCells == SheetRows \X SheetCols

PlanCells == {CellOfIdx(r) : r \in FirstRowIdx..(EndRowIdx - 1)}

\* Values a payment-plan cell of column J may hold.
PlanValues ==
    { None, Num(5), Num(100), Num(10000), Num(0), Num(0 - 500),
      Text(<<"0", ".", "5">>), Text(<<"=", "J", "3">>) }

\* Console lines
Line(tag, row, old, new) == [tag |-> tag, row |-> row, old |-> old, new |-> new]

\* The reading scripts at rest.
ReadIdle ==
    /\ book = <<>>
    /\ script = "none"
    /\ dpc = "idle"
    /\ data = <<>>
    /\ mapIdx = 1
    /\ dout = <<>>
    /\ derr = FALSE
    /\ dHandle = "none"

InitFix ==
    /\ ReadIdle
    /\ \E plan \in [PlanCells -> PlanValues] :
          file = [c \in SheetCells |->
                    IF c \in PlanCells THEN plan[c] ELSE Num(100)]
    /\ pc = "idle"
    /\ ws = [c \in SheetCells |-> None]
    /\ row_idx = FirstRowIdx
    /\ changes = <<>>
    /\ out = <<>>
    /\ ret = "none"
    /\ wbHandle = "none"
    /\ before = [c \in SheetCells |-> None]
    /\ examined = {}
    /\ saveCalls = 0
    /\ raised = "none"
    /\ hist = <<>>

\* A run is started (the operator invokes the script).
FixStart ==
    /\ UNCHANGED readVars
    /\ pc \in {"idle", "done"}
    /\ Len(hist) < MaxRuns
    /\ pc' = "check"
    /\ ws' = [c \in SheetCells |-> None]
    /\ row_idx' = FirstRowIdx
    /\ changes' = <<>>
    /\ out' = <<>>
    /\ ret' = "none"
    /\ wbHandle' = "none"
    /\ before' = [c \in SheetCells |-> None]
    /\ examined' = {}
    /\ saveCalls' = 0
    /\ raised' = "none"
    /\ UNCHANGED <<file, hist>>

\* os.path.exists(excel_path) is False: return False
FixNotFound ==
    /\ UNCHANGED readVars
    /\ pc = "check"
    /\ out' = Append(out, Line("not found", 0, None, None))
    /\ ret' = "False"
    /\ hist' = Append(hist, "False")
    /\ pc' = "done"
    /\ UNCHANGED <<file, ws, row_idx, changes, wbHandle, before, examined,
                   saveCalls, raised>>

\* load_workbook succeeds; ws = wb.active
FixLoad ==
    /\ UNCHANGED readVars
    /\ pc = "check"
    /\ ws' = file
    /\ before' = file
    /\ wbHandle' = "open"
    /\ row_idx' = FirstRowIdx
    /\ changes' = <<>>
    /\ out' = Append(out, Line("opening", 0, None, None))
    /\ pc' = "loop"
    /\ UNCHANGED <<file, ret, examined, saveCalls, raised, hist>>

\* load_workbook raises: caught by "except Exception", return False
FixLoadFail ==
    /\ UNCHANGED readVars
    /\ pc = "check"
    /\ raised' = "load"
    /\ out' = out \o << Line("opening", 0, None, None),
                        Line("error", 0, None, None) >>
    /\ ret' = FailureResult
    /\ hist' = Append(hist, FailureResult)
    /\ pc' = "done"
    /\ UNCHANGED <<file, ws, row_idx, changes, wbHandle, before, examined,
                   saveCalls>>

\* The loop head: the cell of this iteration and the line printed for it.
InLoop == pc = "loop" /\ row_idx < EndRowIdx

CurCell == CellOfIdx(row_idx)

CurValue == ws[CurCell]

RowLine == Line("row", RowOfIdx(row_idx), CurValue, None)

\* current_value is None: nothing is done for the cell
FixCellEmpty ==
    /\ UNCHANGED readVars
    /\ InLoop
    /\ CurValue.kind = "none"
    /\ examined' = examined \cup {CurCell}
    /\ out' = Append(out, RowLine)
    /\ row_idx' = row_idx + 1
    /\ UNCHANGED <<file, pc, ws, changes, ret, wbHandle, before, saveCalls,
                   raised, hist>>

\* 0 < num_value < 1: the cell is rewritten and the change recorded
FixCellConvert ==
    /\ UNCHANGED readVars
    /\ InLoop
    /\ CurValue.kind # "none"
    /\ FloatOf(CurValue).exc = "none"
    /\ IsFraction(FloatOf(CurValue).num)
    /\ LET new == Num(NewValue(FloatOf(CurValue).num))
       IN  /\ ws' = [ws EXCEPT ![CurCell] = new]
           /\ changes' = Append(changes, ChangeRecord(row_idx, CurValue, new))
           /\ out' = out \o << RowLine,
                     Line("converting", RowOfIdx(row_idx), CurValue, new) >>
    /\ examined' = examined \cup {CurCell}
    /\ row_idx' = row_idx + 1
    /\ UNCHANGED <<file, pc, ret, wbHandle, before, saveCalls, raised, hist>>

\* num_value >= 1 ("keeping as-is"), or num_value <= 0 ("skipping")
FixCellKeep ==
    /\ UNCHANGED readVars
    /\ InLoop
    /\ CurValue.kind # "none"
    /\ FloatOf(CurValue).exc = "none"
    /\ ~IsFraction(FloatOf(CurValue).num)
    /\ examined' = examined \cup {CurCell}
    /\ out' = out \o << RowLine,
              Line(IF FloatOf(CurValue).num >= Scale THEN "keeping" ELSE "skipping",
                   RowOfIdx(row_idx), CurValue, None) >>
    /\ row_idx' = row_idx + 1
    /\ UNCHANGED <<file, pc, ws, changes, ret, wbHandle, before, saveCalls,
                   raised, hist>>

\* float(current_value) raises: the inner except skips the cell; an exception
\* it does not catch reaches "except Exception" and ends the run
FixCellNonNumeric ==
    /\ UNCHANGED readVars
    /\ InLoop
    /\ CurValue.kind # "none"
    /\ FloatOf(CurValue).exc # "none"
    /\ examined' = examined \cup {CurCell}
    /\ IF Caught(FloatOf(CurValue).exc)
       THEN /\ out' = out \o << RowLine,
                      Line("non-numeric", RowOfIdx(row_idx), CurValue, None) >>
            /\ row_idx' = row_idx + 1
            /\ UNCHANGED <<pc, ret, raised, hist>>
       ELSE /\ out' = out \o << RowLine, Line("error", 0, None, None) >>
            /\ raised' = "cell"
            /\ ret' = FailureResult
            /\ hist' = Append(hist, FailureResult)
            /\ pc' = "done"
            /\ UNCHANGED row_idx
    /\ UNCHANGED <<file, ws, changes, wbHandle, before, saveCalls>>

LoopDone == pc = "loop" /\ row_idx >= EndRowIdx

ChangeLines(ch) ==
    [i \in 1..Len(ch) |-> Line("changed", ch[i][1], ch[i][2], ch[i][3])]

\* "if changes:" wb.save(excel_path) succeeds; the changes are listed
FixSave ==
    /\ UNCHANGED readVars
    /\ LoopDone
    /\ ShouldSave(changes)
    /\ saveCalls' = saveCalls + 1
    /\ file' = ws
    /\ out' = out \o << Line("saving", 0, None, None),
                        Line("updated", 0, None, None) >> \o ChangeLines(changes)
    /\ pc' = "return"
    /\ UNCHANGED <<ws, row_idx, changes, ret, wbHandle, before, examined,
                   raised, hist>>

\* wb.save(excel_path) raises (destination not writable): caught by
\* "except Exception", return False
FixSaveFail ==
    /\ UNCHANGED readVars
    /\ LoopDone
    /\ ShouldSave(changes)
    /\ saveCalls' = saveCalls + 1
    /\ raised' = "save"
    /\ out' = out \o << Line("saving", 0, None, None),
                        Line("error", 0, None, None) >>
    /\ ret' = FailureResult
    /\ hist' = Append(hist, FailureResult)
    /\ pc' = "done"
    /\ UNCHANGED <<file, ws, row_idx, changes, wbHandle, before, examined>>

\* "else:" no changes needed
FixNoChanges ==
    /\ UNCHANGED readVars
    /\ LoopDone
    /\ ~ShouldSave(changes)
    /\ out' = Append(out, Line("no changes", 0, None, None))
    /\ pc' = "return"
    /\ UNCHANGED <<file, ws, row_idx, changes, ret, wbHandle, before, examined,
                   saveCalls, raised, hist>>

\* return True
FixReturn ==
    /\ UNCHANGED readVars
    /\ pc = "return"
    /\ out' = Append(out, Line("complete", 0, None, None))
    /\ ret' = "True"
    /\ hist' = Append(hist, "True")
    /\ pc' = "done"
    /\ UNCHANGED <<file, ws, row_idx, changes, wbHandle, before, examined,
                   saveCalls, raised>>

NextFix ==
    \/ FixStart
    \/ FixNotFound
    \/ FixLoad
    \/ FixLoadFail
    \/ FixCellEmpty
    \/ FixCellConvert
    \/ FixCellKeep
    \/ FixCellNonNumeric
    \/ FixSave
    \/ FixSaveFail
    \/ FixNoChanges
    \/ FixReturn

SpecFix == InitFix /\ [][NextFix]_vars

-----------------------------------------------------------------------------
(* diagnose and analyze_excel *)

Min(a, b) == IF a < b THEN a ELSE b

\* Python list indexing, 0-based: s[i]
At(s, i) == s[i + 1]

\* Truth value of a cell ("if cell", "and data[i][4]")
Truthy(v) ==
    \/ v.kind = "num" /\ v.num # 0
    \/ v.kind = "text" /\ v.txt # <<>>

\* str(cell).strip() is non-empty (the str() of a number never is empty)
StrNonBlank(v) ==
    \/ v.kind = "num"
    \/ v.kind = "text" /\ Strip(v.txt) # <<>>

LowerCh(ch) ==
    CASE
         ch = "A" -> "a"
      [] ch = "B" -> "b"
      [] ch = "C" -> "c"
      [] ch = "D" -> "d"
      [] ch = "E" -> "e"
      [] ch = "F" -> "f"
      [] ch = "G" -> "g"
      [] ch = "H" -> "h"
      [] ch = "I" -> "i"
      [] ch = "J" -> "j"
      [] ch = "K" -> "k"
      [] ch = "L" -> "l"
      [] ch = "M" -> "m"
      [] ch = "N" -> "n"
      [] ch = "O" -> "o"
      [] ch = "P" -> "p"
      [] ch = "Q" -> "q"
      [] ch = "R" -> "r"
      [] ch = "S" -> "s"
      [] ch = "T" -> "t"
      [] ch = "U" -> "u"
      [] ch = "V" -> "v"
      [] ch = "W" -> "w"
      [] ch = "X" -> "x"
      [] ch = "Y" -> "y"
      [] ch = "Z" -> "z"
      [] OTHER -> ch

Lower(s) == [i \in 1..Len(s) |-> LowerCh(s[i])]

\* sub in s
Contains(sub, s) ==
    \E k \in 0..(Len(s) - Len(sub)) : SubSeq(s, k + 1, k + Len(sub)) = sub

Keywords == << <<"P", "a", "i", "d">>,
              <<"S", "e", "l", "l", "e", "r">>,
              <<"D", "e", "v", "e", "l", "o", "p", "e", "r">>,
              <<"1", "5", "%">>,
              <<"R", "e", "f", "u", "n", "d">>,
              <<"B", "a", "l", "a", "n", "c", "e">>,
              <<"P", "r", "e", "m", "i", "u", "m">>,
              <<"A", "d", "m", "i", "n">>,
              <<"A", "D", "G", "M">>,
              <<"A", "g", "e", "n", "c", "y">> >>

\* any(keyword.lower() in str(cell).lower() for keyword in keywords); the
\* str() of a number holds digits, ".", "-" and "e" only, so no keyword is in it
KeywordHit(v) ==
    /\ v.kind = "text"
    /\ \E k \in 1..Len(Keywords) : Contains(Lower(Keywords[k]), Lower(v.txt))

\* len(data) > row
RowInRange(d, row) == Len(d) > row

\* Mutant: the column bound checked with >= (off by one).
ColInRangeOffByOne(r, col) == Len(r) >= col

\* len(data[row]) > col
ColInRange(r, col) == Len(r) > col

\* Mutant: the value taken from the label column.
MappedValueFromLabelColumn(d, row, col) == At(At(d, row), 4)

\* value = data[row][col]
MappedValue(d, row, col) == At(At(d, row), col)

\* label_col4 = data[row][4] if len(data[row]) > 4 else "N/A"
LabelCol4(d, row) ==
    IF Len(At(d, row)) > 4 THEN At(At(d, row), 4) ELSE Text(<<"N", "/", "A">>)

\* The list "mappings": (html_field, excel_label, row, col)
Mappings ==
    << [field |-> "u_paid", row |-> 1, col |-> 6],
       [field |-> "u_bal", row |-> 2, col |-> 6],
       [field |-> "u_prem", row |-> 3, col |-> 6],
       [field |-> "u_adm", row |-> 4, col |-> 6],
       [field |-> "u_trans", row |-> 5, col |-> 6],
       [field |-> "u_broker", row |-> 6, col |-> 6] >>

\* The project details printed from column 2: one per row 0..9
DetailNames ==
    << "Project Name", "Unit No", "Unit Type", "Unit Model", "Views",
       "Internal Area", "Balcony Area", "Total Area", "Original Price",
       "Selling Price" >>

DetailColumn == 2

Entry(sect, field, row, col, label, value) ==
    [sect |-> sect, field |-> field, row |-> row, col |-> col,
     label |-> label, value |-> value]

RECURSIVE Flatten(_)
Flatten(ss) == IF ss = <<>> THEN <<>> ELSE Head(ss) \o Flatten(Tail(ss))

\* The cells of rows lo..hi-1, columns below maxc, in row-major order
CellEntries(sect, d, lo, hi, maxc) ==
    Flatten([k \in 1..(IF hi > lo THEN hi - lo ELSE 0) |->
        LET i == lo + k - 1 IN
        [j \in 1..Min(maxc, Len(At(d, i))) |->
            Entry(sect, "", i, j - 1, None, At(At(d, i), j - 1))]])

\* Contents of Book1.xlsx: column 2 holds the project details, column 4 the
\* payment labels, column 5 the recipients, column 6 the payment values;
\* "empties" are the rows 1..6 whose payment value is empty.
PayLabel(r) ==
    CASE r = 1 -> Text(<<"R", "e", "f", "u", "n", "d">>)
      [] r = 2 -> Text(<<"B", "a", "l", "a", "n", "c", "e">>)
      [] r = 3 -> Text(<<"P", "r", "e", "m", "i", "u", "m">>)
      [] r = 4 -> Text(<<"A", "d", "m", "i", "n", " ", "F", "e", "e", "s">>)
      [] r = 5 -> Text(<<"A", "D", "G", "M">>)
      [] r = 6 -> Text(<<"A", "g", "e", "n", "c", "y", " ", "F", "e", "e", "s">>)
      [] OTHER -> None

PayValue(r) ==
    CASE r = 1 -> Num(300)
      [] r = 4 -> Num(20)
      [] r = 5 -> Num(0)
      [] OTHER -> Num(r * 1000000)

BookCell(r, c, empties) ==
    CASE c = 2 -> Text(<<"D">>)
      [] c = 4 -> PayLabel(r)
      [] c = 5 -> IF r \in {1, 2} THEN Text(<<"S", "e", "l", "l", "e", "r">>) ELSE None
      [] c = 6 -> IF r \in 1..6 /\ r \notin empties THEN PayValue(r) ELSE None
      [] OTHER -> None

InitRead ==
    /\ \E nr \in 0..MaxRows, nc \in 1..MaxCols, empties \in SUBSET (1..6) :
          book = [r \in 1..nr |-> [c \in 1..nc |-> BookCell(r - 1, c - 1, empties)]]
    /\ script = "none"
    /\ dpc = "idle"
    /\ data = <<>>
    /\ mapIdx = 1
    /\ dout = <<>>
    /\ derr = FALSE
    /\ dHandle = "none"
    /\ file = [c \in SheetCells |-> None]
    /\ pc = "idle"
    /\ ws = [c \in SheetCells |-> None]
    /\ row_idx = FirstRowIdx
    /\ changes = <<>>
    /\ out = <<>>
    /\ ret = "none"
    /\ wbHandle = "none"
    /\ before = [c \in SheetCells |-> None]
    /\ examined = {}
    /\ saveCalls = 0
    /\ raised = "none"
    /\ hist = <<>>

\* diagnose: load_workbook succeeds and every row is appended to data
DiagLoad ==
    /\ UNCHANGED fixVars
    /\ dpc = "idle"
    /\ script' = "diagnose"
    /\ dHandle' = "open"
    /\ data' = book
    /\ dpc' = "details"
    /\ UNCHANGED <<book, mapIdx, dout, derr>>

\* diagnose: load_workbook raises; nothing catches it
DiagLoadFail ==
    /\ UNCHANGED fixVars
    /\ dpc = "idle"
    /\ script' = "diagnose"
    /\ derr' = TRUE
    /\ dpc' = "done"
    /\ UNCHANGED <<book, data, mapIdx, dout, dHandle>>

\* diagnose: the ten project details
DiagDetails ==
    /\ UNCHANGED fixVars
    /\ dpc = "details"
    /\ LET shown == {i \in 0..9 : RowInRange(data, i) /\ ColInRange(At(data, i), DetailColumn)}
           bad   == {i \in shown : DetailColumn >= Len(At(data, i))}
       IN  IF bad = {}
           THEN /\ dout' = dout \o
                     SelectSeq([k \in 1..10 |->
                                   IF k - 1 \in shown
                                   THEN Entry("details", DetailNames[k], k - 1, DetailColumn,
                                              None, At(At(data, k - 1), DetailColumn))
                                   ELSE Entry("skip", "", 0, 0, None, None)],
                               LAMBDA e : e.sect = "details")
                /\ dpc' = "mappings"
                /\ UNCHANGED derr
           ELSE \* data[i][2] raises IndexError
                /\ derr' = TRUE
                /\ dpc' = "done"
                /\ UNCHANGED dout
    /\ mapIdx' = 1
    /\ UNCHANGED <<book, script, data, dHandle>>

\* diagnose: one iteration of "for html_field, excel_label, row, col in mappings"
DiagMapping ==
    /\ UNCHANGED fixVars
    /\ dpc = "mappings"
    /\ mapIdx <= Len(Mappings)
    /\ LET m == Mappings[mapIdx] IN
       IF RowInRange(data, m.row) /\ ColInRange(At(data, m.row), m.col)
       THEN IF m.col < Len(At(data, m.row))
            THEN /\ dout' = Append(dout,
                        Entry("mapping", m.field, m.row, m.col, LabelCol4(data, m.row),
                              MappedValue(data, m.row, m.col)))
                 /\ mapIdx' = mapIdx + 1
                 /\ UNCHANGED <<dpc, derr>>
            ELSE \* data[row][col] raises IndexError
                 /\ derr' = TRUE
                 /\ dpc' = "done"
                 /\ UNCHANGED <<dout, mapIdx>>
       ELSE /\ mapIdx' = mapIdx + 1
            /\ UNCHANGED <<dout, dpc, derr>>
    /\ UNCHANGED <<book, script, data, dHandle>>

\* diagnose: the three "alternative data locations" listings (columns 4, 5, 6)
DiagAlternatives ==
    /\ UNCHANGED fixVars
    /\ dpc = "mappings"
    /\ mapIdx > Len(Mappings)
    /\ LET hi == Min(8, Len(data)) IN
         dout' = dout
            \o SelectSeq(CellEntries("col4", data, 1, hi, 5),
                          LAMBDA e : e.col = 4 /\ Truthy(e.value))
            \o SelectSeq(CellEntries("col5", data, 1, hi, 6),
                          LAMBDA e : e.col = 5 /\ Truthy(e.value))
            \o SelectSeq(CellEntries("col6", data, 1, hi, 7),
                          LAMBDA e : e.col = 6 /\ e.value.kind # "none")
    /\ dpc' = "done"
    /\ UNCHANGED <<book, script, data, mapIdx, derr, dHandle>>

\* analyze_excel: load_workbook succeeds and every row is appended to data
AnalyzeLoad ==
    /\ UNCHANGED fixVars
    /\ dpc = "idle"
    /\ script' = "analyze"
    /\ dHandle' = "open"
    /\ data' = book
    /\ dpc' = "breakdown"
    /\ UNCHANGED <<book, mapIdx, dout, derr>>

\* analyze_excel: load_workbook raises; nothing catches it
AnalyzeLoadFail ==
    /\ UNCHANGED fixVars
    /\ dpc = "idle"
    /\ script' = "analyze"
    /\ derr' = TRUE
    /\ dpc' = "done"
    /\ UNCHANGED <<book, data, mapIdx, dout, dHandle>>

\* analyze_excel: the row-by-row breakdown of data[:15], row[:15]
AnalyzeBreakdown ==
    /\ UNCHANGED fixVars
    /\ dpc = "breakdown"
    /\ dout' = dout \o
          SelectSeq(CellEntries("breakdown", data, 0, Min(15, Len(data)), 15),
                    LAMBDA e : e.value.kind # "none" /\ StrNonBlank(e.value))
    /\ dpc' = "keywords"
    /\ UNCHANGED <<book, script, data, mapIdx, derr, dHandle>>

\* analyze_excel: the keyword search over data[:20], row[:15]
AnalyzeKeywords ==
    /\ UNCHANGED fixVars
    /\ dpc = "keywords"
    /\ dout' = dout \o
          SelectSeq(CellEntries("keywords", data, 0, Min(20, Len(data)), 15),
                    LAMBDA e : Truthy(e.value) /\ KeywordHit(e.value))
    /\ dpc' = "payments"
    /\ UNCHANGED <<book, script, data, mapIdx, derr, dHandle>>

\* analyze_excel: rows 1..7, every column below 15, cells that are not None
AnalyzePayments ==
    /\ UNCHANGED fixVars
    /\ dpc = "payments"
    /\ dout' = dout \o
          SelectSeq(CellEntries("payments", data, 1, Min(8, Len(data)), 15),
                    LAMBDA e : e.value.kind # "none")
    /\ dpc' = "done"
    /\ UNCHANGED <<book, script, data, mapIdx, derr, dHandle>>

NextRead ==
    \/ DiagLoad
    \/ DiagLoadFail
    \/ DiagDetails
    \/ DiagMapping
    \/ DiagAlternatives
    \/ AnalyzeLoad
    \/ AnalyzeLoadFail
    \/ AnalyzeBreakdown
    \/ AnalyzeKeywords
    \/ AnalyzePayments

SpecRead == InitRead /\ [][NextRead]_vars

-----------------------------------------------------------------------------
(* Properties of fix_percentages *)

\* The cell a change record names: its 1-based row, in the column the loop reads.
RecordCell(rec) == <<rec[1], 10>>

RecordCells == {RecordCell(changes[i]) : i \in 1..Len(changes)}

\* The run has left the loop normally (all iterations done).
PastLoop == pc = "return" \/ (pc = "done" /\ raised \in {"none", "save"} /\ wbHandle = "open")

\* C1: every examined cell that held a number v holds v * 100 if 0 < v < 1
\* and is unchanged if v >= 1 (0.1 becomes 10; 10 stays 10).
C1_PercentNormalized ==
    \A c \in examined :
        before[c].kind = "num" =>
            /\ (0 < before[c].num /\ before[c].num < 1000) =>
                   ws[c] = Num(before[c].num * 100)
            /\ before[c].num >= 1000 => ws[c] = before[c]

C1_Witness ==
    \E c1, c2 \in examined :
        /\ before[c1] = Num(100) /\ ws[c1] = Num(10000)
        /\ before[c2] = Num(10000) /\ ws[c2] = Num(10000)

\* C2: a run that follows a successful run changes no cell (running the
\* normalization twice gives what running it once gives).
C2_SecondRunChangesNothing ==
    (pc \in {"loop", "return"} /\ hist # <<>> /\ hist[Len(hist)] = "True")
        => ws = before

\* C5: every cell other than those the change list records keeps the value it
\* had when loaded; a recorded cell held a value strictly between 0 and 1 and
\* now holds the recorded new value; the file differs from the loaded sheet
\* only in recorded cells, and equals the sheet once the run has succeeded.
C5_WriteBackFrame ==
    /\ wbHandle = "open" =>
          \A c \in SheetCells \ RecordCells : ws[c] = before[c] /\ file[c] = before[c]
    /\ \A i \in 1..Len(changes) :
          LET c == RecordCell(changes[i]) IN
            /\ c \in SheetCells
            /\ before[c] = changes[i][2]
            /\ FloatOf(changes[i][2]).exc = "none"
            /\ 0 < FloatOf(changes[i][2]).num /\ FloatOf(changes[i][2]).num < 1000
            /\ ws[c] = changes[i][3]
            /\ file[c] \in {before[c], changes[i][3]}
    /\ (pc = "done" /\ ret = "True") => file = ws

C5_Witness ==
    /\ pc = "done" /\ ret = "True"
    /\ Len(changes) = 1
    /\ changes[1] = <<5, Num(100), Num(10000)>>
    /\ file[<<5, 10>>] = Num(10000)
    /\ file[<<5, 11>>] = Num(100)
    /\ file[<<4, 10>>] = Num(0 - 500)

\* C6 (as stated): a cell holding text, whatever the text, is left unchanged,
\* gets no change record and raises nothing.
C6_TextLeftUnchanged ==
    /\ raised # "cell"
    /\ \A c \in examined :
          before[c].kind = "text" => ws[c] = before[c] /\ c \notin RecordCells

\* C6 (amended): text that float() rejects is left unchanged, gets no change
\* record, raises nothing and the remaining cells are processed; text that
\* spells a number is treated as that number.
C6_UnparseableTextLeftUnchanged ==
    /\ raised # "cell"
    /\ (pc \in {"return", "done"} /\ wbHandle = "open") => examined = {<<r, 10>> : r \in 4..7}
    /\ \A c \in examined :
          before[c].kind = "text" =>
             IF ParseFloat(before[c].txt).exc # "none"
             THEN ws[c] = before[c] /\ c \notin RecordCells
             ELSE LET n == ParseFloat(before[c].txt).num IN
                    IF 0 < n /\ n < 1000
                    THEN ws[c] = Num(n * 100) /\ c \in RecordCells
                    ELSE ws[c] = before[c] /\ c \notin RecordCells

C6_Witness ==
    /\ pc = "done"
    /\ \E c1, c2 \in examined :
          /\ c1[1] < c2[1]
          /\ before[c1] = Text(<<"=", "J", "3">>) /\ ws[c1] = before[c1]
          /\ before[c2] = Text(<<"0", ".", "5">>) /\ ws[c2] = Num(50000)

\* C7: when wb.save() fails the run returns False, and every change record
\* computed before the save is on the console (the row line and the
\* "Converting old to new" line printed in the loop).
C7_SaveFailureReported ==
    raised = "save" =>
        /\ pc = "done" /\ ret = "False"
        /\ changes # <<>>
        /\ \A i \in 1..Len(changes) :
              \E j \in 1..(Len(out) - 1) :
                 /\ out[j] = Line("row", changes[i][1], changes[i][2], None)
                 /\ out[j + 1] = Line("converting", changes[i][1], changes[i][2],
                                      changes[i][3])

C7_Witness == raised = "save" /\ Len(changes) >= 2 /\ ret = "False"

\* C8: when a run has ended, the workbook handle it acquired has been closed.
C8_HandleReleased ==
    /\ (pc = "done" /\ wbHandle # "none") => wbHandle = "closed"
    /\ (dpc = "done" /\ dHandle # "none") => dHandle = "closed"

\* C9: the cells examined are exactly the 0-based cells (r, 10), r in 3..6.
C9_ExaminedZeroBasedColumn10 ==
    PastLoop =>
        {<<c[1] - 1, c[2] - 1>> : c \in examined} = {<<r, 10>> : r \in 3..6}

\* C10: wb.save() is called at most once, only after all four cells were
\* examined, and exactly when some cell was converted; with nothing to
\* convert there is no save and the run returns True.
C10_SaveOnceIffConverted ==
    /\ saveCalls <= 1
    /\ saveCalls = 1 => examined = {<<r, 10>> : r \in 4..7} /\ pc \in {"return", "done"}
    /\ PastLoop => (saveCalls = 1 <=> \E c \in examined : ws[c] # before[c])
    /\ PastLoop => (saveCalls = 1 <=>
                      \E c \in examined :
                         /\ before[c].kind # "none"
                         /\ FloatOf(before[c]).exc = "none"
                         /\ 0 < FloatOf(before[c]).num
                         /\ FloatOf(before[c]).num < 1000)
    /\ (pc = "done" /\ wbHandle = "open" /\ saveCalls = 0) =>
          ret = "True" /\ file = before

C10_Witness ==
    /\ pc = "done" /\ ret = "True" /\ saveCalls = 0
    /\ {before[c] : c \in examined} = {Num(0), Num(0 - 500), None, Num(10000)}

-----------------------------------------------------------------------------
(* Properties of diagnose *)

\* diagnose has loaded the workbook.
DiagLoaded == script = "diagnose" /\ dHandle = "open"

\* The mapping entries whose loop iteration is over.
ProcessedMappings ==
    IF DiagLoaded /\ dpc \in {"mappings", "done"} /\ ~derr
    THEN 1..(mapIdx - 1) ELSE {}

OutOfGrid(m) == m.row >= Len(book) \/ m.col >= Len(book[m.row + 1])

FieldEntries(f) ==
    {j \in 1..Len(dout) : dout[j].sect = "mapping" /\ dout[j].field = f}

\* C3 (as stated): a mapping entry outside the grid, or whose cell is empty,
\* produces no output for its field, and no error is raised.
C3_AbsentWhenOutOfGridOrEmpty ==
    /\ DiagLoaded => ~derr
    /\ \A k \in ProcessedMappings :
          LET m == Mappings[k] IN
            (OutOfGrid(m) \/ book[m.row + 1][m.col + 1] = None)
                => FieldEntries(m.field) = {}

\* C3 (amended): a mapping entry outside the grid produces no output and no
\* error; an entry inside the grid is printed once, with the value None when
\* its cell is empty; all six entries are processed.
C3_AbsentWhenOutOfGrid ==
    /\ DiagLoaded => ~derr
    /\ (DiagLoaded /\ dpc = "done") => mapIdx = 7
    /\ \A k \in ProcessedMappings :
          LET m == Mappings[k] IN
            IF OutOfGrid(m)
            THEN FieldEntries(m.field) = {}
            ELSE /\ Cardinality(FieldEntries(m.field)) = 1
                 /\ book[m.row + 1][m.col + 1] = None =>
                       \A j \in FieldEntries(m.field) : dout[j].value = None

C3_Witness ==
    /\ DiagLoaded /\ dpc = "done"
    /\ Len(book) = 3 /\ Len(book[1]) = 7
    /\ book[3][7] = None
    /\ FieldEntries("u_paid") # {}
    /\ \E j \in FieldEntries("u_bal") : dout[j].value = None
    /\ FieldEntries("u_prem") = {}
    /\ FieldEntries("u_broker") = {}

\* The percentage rule of the specification: a fraction is scaled by 100.
Normalized(v) ==
    IF v.kind = "num" /\ 0 < v.num /\ v.num < 1000 THEN Num(v.num * 100) ELSE v

\* C4 (as stated): an in-grid, non-empty cell is extracted normalized for the
\* percentage fields of the scenarios (u_paid at [1][6], the field at [4][6]):
\* 0.3 gives 30 and 0.02 gives 2; other fields carry the cell value.
C4_ExtractedNormalized ==
    \A k \in ProcessedMappings :
       LET m == Mappings[k] IN
         (~OutOfGrid(m) /\ book[m.row + 1][m.col + 1] # None) =>
            \A j \in FieldEntries(m.field) :
               dout[j].value = IF m.row \in {1, 4}
                               THEN Normalized(book[m.row + 1][m.col + 1])
                               ELSE book[m.row + 1][m.col + 1]

\* C4 (amended): an in-grid, non-empty cell is extracted as the cell value
\* itself, with no percentage normalization: 0.3 gives 0.3, 0.02 gives 0.02.
C4_ExtractedRaw ==
    \A k \in ProcessedMappings :
       LET m == Mappings[k] IN
         (~OutOfGrid(m) /\ book[m.row + 1][m.col + 1] # None) =>
            /\ FieldEntries(m.field) # {}
            /\ \A j \in FieldEntries(m.field) :
                  /\ dout[j].value = book[m.row + 1][m.col + 1]
                  /\ dout[j].row = m.row /\ dout[j].col = m.col

C4_Witness ==
    /\ DiagLoaded /\ dpc = "done"
    /\ Len(book) >= 5 /\ Len(book[1]) = 7
    /\ book[2][7] = Num(300) /\ book[5][7] = Num(20)
    /\ \E j \in FieldEntries("u_paid") : dout[j].value = Num(300)
    /\ \E j \in FieldEntries("u_adm") : dout[j].value = Num(20)

====
